---- MODULE Spec2Model ----
(***************************************************************************)
(* flintcli: the tick-synchronised test executor (src/src/executor.rs) and *)
(* the session layer it drives (src/src/bot.rs).                           *)
(*                                                                         *)
(* One behaviour is one call of TestExecutor::run_tests_parallel on a      *)
(* list of (TestSpec, offset) pairs.  Every `.await?` of the function is a *)
(* step of the model; execute_action (with the match on its result in the  *)
(* tick loop) is one step.  `sent` is the stream of commands and queries   *)
(* that reached the backend, in order.                                     *)
(*                                                                         *)
(* Strings the code inspects (block identifiers, state representations,    *)
(* property names) are sequences of one-character strings, so that         *)
(* trim_start_matches, to_lowercase, replace and contains are computed.    *)
(***************************************************************************)
EXTENDS Integers, Sequences, FiniteSets, TLC

\* Bounds of the model.
MaxTests == 2
MaxTick == 1

\* The width the model gives the coordinate type i32.
CoordBits == 6

\* The width the model gives the tick type u32.
TickBits == 3

\* How often the model lets current_tick wrap to 0 in one run.
MaxLaps == 1

VARIABLES
    tests_with_offsets,  \* the input list: <<TestSpec, offset>> pairs
    client,              \* TestBot.client: "None" | "Some"
    client_handle,       \* the shared cell behind it: "None" | "Some"
    link,                \* "up" | "flaky": may a transmission return Err
    world,               \* the block states the backend may report
    pc,                  \* position in run_tests_parallel
    global_timeline,     \* tick -> sequence of <<test_idx, entry, value_idx>>
    max_global_tick,
    clean_idx,           \* loop index of the two cleanup loops
    test_results,        \* per test <<passed, failed>>
    current_tick,
    entry_pos,           \* position in the bucket of current_tick
    sent,                \* commands and queries that reached the backend
    executed,            \* the calls of execute_action so far, in order
    last,                \* the latest call: its result, answers and events
    visited,             \* the ticks the loop body ran for, in order
    mismatched,          \* per test: occurrences whose comparison did not hold
    results,             \* the returned Vec<TestResult>
    cstate,              \* position in TestBot::connect
    polls,               \* polls made in the two windows of connect
    task,                \* the spawned background task: "absent" | "running" | "ended"
    in_game,             \* the shared AtomicBool the Login event sets
    bot_in_game,         \* TestBot.in_game: "None" | "Some"
    connect_result,      \* what connect returned: "" (not yet) | "Ok" | "Err"
    flights,             \* per element of sent: when its call was issued and awaited
    laps,                \* how often current_tick has wrapped to 0
    offset_call,         \* a call of apply_offset on its own: arguments and outcome
    single               \* a call of run_test or run_test_with_offset: its locals

\* What connect and the background task read and write, besides the cell
\* client_handle and the field client.
connect_vars == <<cstate, polls, task, in_game, bot_in_game, connect_result>>

vars == <<tests_with_offsets, client, client_handle, link, world, pc, global_timeline,
          max_global_tick, clean_idx, test_results, current_tick, entry_pos,
          sent, executed, last, visited, mismatched, results, connect_vars,
          flights, laps, offset_call, single>>

----------------------------------------------------------------------------
\* Generic helpers.

Range(s) == {s[i] : i \in 1..Len(s)}

SetMax(S) == IF S = {} THEN 0 ELSE CHOOSE m \in S : \A x \in S : x <= m

RECURSIVE Flatten(_)
Flatten(ss) == IF ss = <<>> THEN <<>> ELSE Head(ss) \o Flatten(Tail(ss))

SeqsUpTo(S, n) == UNION {[1..k -> S] : k \in 0..n}

----------------------------------------------------------------------------
\* String operations of the Rust standard library, on character sequences.

UpperChars == <<"A","B","C","D","E","F","G","H","I","J","K","L","M",
                "N","O","P","Q","R","S","T","U","V","W","X","Y","Z">>
LowerChars == <<"a","b","c","d","e","f","g","h","i","j","k","l","m",
                "n","o","p","q","r","s","t","u","v","w","x","y","z">>

LowerMap == [c \in Range(UpperChars) |-> LowerChars[CHOOSE i \in 1..26 : UpperChars[i] = c]]

LowerChar(c) == IF c \in DOMAIN LowerMap THEN LowerMap[c] ELSE c

\* str::to_lowercase
to_lowercase(s) == [i \in 1..Len(s) |-> LowerChar(s[i])]

starts_with(s, p) == Len(p) <= Len(s) /\ SubSeq(s, 1, Len(p)) = p

\* str::contains: the needle occurs as a contiguous substring
contains(h, n) ==
    \E i \in 0..(Len(h) - Len(n)) : SubSeq(h, i + 1, i + Len(n)) = n

\* str::trim_start_matches: the prefix is removed as often as it repeats
RECURSIVE trim_start_matches(_, _)
trim_start_matches(s, p) ==
    IF p # <<>> /\ starts_with(s, p)
    THEN trim_start_matches(SubSeq(s, Len(p) + 1, Len(s)), p)
    ELSE s

\* str::replace(c, "")
remove_char(s, c) == SelectSeq(s, LAMBDA x : x # c)

NamespacePrefix == <<"m","i","n","e","c","r","a","f","t",":">>

\* The spelling of every string the runs use, character by character.
Spelling ==
    ("stone" :> <<"s","t","o","n","e">>) @@
    ("minecraft:stone" :> NamespacePrefix \o <<"s","t","o","n","e">>) @@
    ("powered" :> <<"p","o","w","e","r","e","d">>) @@
    ("true" :> <<"t","r","u","e">>) @@
    ("false" :> <<"f","a","l","s","e">>) @@
    ("lever{ powered: true }" :>
        <<"l","e","v","e","r","{"," ","p","o","w","e","r","e","d",":"," ",
          "t","r","u","e"," ","}">>) @@
    ("piston{ extended: true }" :>
        <<"p","i","s","t","o","n","{"," ","e","x","t","e","n","d","e","d",":"," ",
          "t","r","u","e"," ","}">>) @@
    ("minecraft:dirt" :> NamespacePrefix \o <<"d","i","r","t">>) @@
    ("Stone_Bricks" :> <<"S","t","o","n","e","_","B","r","i","c","k","s">>) @@
    ("stone_bricks" :> <<"s","t","o","n","e","_","b","r","i","c","k","s">>) @@
    ("StoneBricks" :> <<"S","t","o","n","e","B","r","i","c","k","s">>) @@
    ("minecraft:minecraft:stone" :>
        NamespacePrefix \o NamespacePrefix \o <<"s","t","o","n","e">>) @@
    ("bricks" :> <<"b","r","i","c","k","s">>) @@
    ("" :> << >>)

chars(s) == Spelling[s]

----------------------------------------------------------------------------
\* Data model (crate::test_spec, used by the executor).

None == [some |-> FALSE, v |-> ""]
Some(x) == [some |-> TRUE, v |-> x]

Origin == <<0, 0, 0>>

NoAction == [type |-> "", pos |-> Origin, block |-> "", blocks |-> <<>>,
             region |-> <<Origin, Origin>>, with |-> "", checks |-> <<>>,
             state |-> "", values |-> <<>>]

\* The variants of ActionType.
Place(pos, block) == [NoAction EXCEPT !.type = "Place", !.pos = pos, !.block = block]
PlaceEach(blocks) == [NoAction EXCEPT !.type = "PlaceEach", !.blocks = blocks]
Fill(region, with) == [NoAction EXCEPT !.type = "Fill", !.region = region, !.with = with]
Remove(pos) == [NoAction EXCEPT !.type = "Remove", !.pos = pos]
AssertBlocks(checks) == [NoAction EXCEPT !.type = "Assert", !.checks = checks]
AssertState(pos, state, values) ==
    [NoAction EXCEPT !.type = "AssertState", !.pos = pos, !.state = state,
                     !.values = values]

TimelineEntry(at, action_type) == [at |-> at, action_type |-> action_type]

TestSpec(timeline, region) ==
    [name |-> "", timeline |-> timeline, cleanup_region |-> region]

\* TestSpec::max_tick: the largest tick any entry of the timeline names.
max_tick(test) ==
    SetMax(UNION {Range(test.timeline[e].at) : e \in 1..Len(test.timeline)})

\* TestSpec::cleanup_region
cleanup_region(test) == test.cleanup_region

----------------------------------------------------------------------------
\* Events on the backend connection.

Event(op, p, q, block, prop) == [op |-> op, p |-> p, q |-> q, block |-> block, prop |-> prop]

FillCmd(min, max, block) == Event("fill", min, max, block, "")
SetblockCmd(pos, block) == Event("setblock", pos, pos, block, "")
\* Every tick command sent as a step command.
TickCmd_always_step(what) == Event("tick step 1", Origin, Origin, "", "")

TickCmd(what) == Event(what, Origin, Origin, "", "")
GetBlock(pos) == Event("get_block", pos, pos, "", "")
GetBlockStateProperty(pos, property) == Event("get_block_state_property", pos, pos, "", property)

----------------------------------------------------------------------------
\* TestBot (src/src/bot.rs).

\* A bot that looks at the shared cell only, not at its own client field.
send_outcomes_by_cell ==
    IF client_handle = "None" THEN {FALSE}
    ELSE IF link = "flaky" THEN {TRUE, FALSE}
    ELSE {TRUE}

\* The outcomes a transmission can have: Err when the bot holds no client or
\* the cell is empty, Ok otherwise; on a flaky link (SpecFault only) either.
send_outcomes ==
    IF client = "None" \/ client_handle = "None" THEN {FALSE}
    ELSE IF link = "flaky" THEN {TRUE, FALSE}
    ELSE {TRUE}

\* TestBot::get_block: the Debug representation of the block state, if any
get_block(block_state) == block_state

\* The state returned whether or not it names the property.
get_block_state_any_property(block_state, property) ==
    IF block_state.some THEN Some(block_state.v) ELSE None

\* TestBot::get_block_state_property: the whole representation when it holds
\* the probe "<property>: ", None otherwise
get_block_state_property(block_state, property) ==
    IF block_state.some
    THEN IF contains(chars(block_state.v), chars(property) \o <<":", " ">>)
         THEN Some(block_state.v)
         ELSE None
    ELSE None

----------------------------------------------------------------------------
\* TestExecutor (src/src/executor.rs).

\* i32, scaled to CoordBits bits: its range, and what `+` leaves in an i32
\* when the sum is outside it and the build does not check the overflow
CoordMin == -(2^(CoordBits - 1))

CoordMax == 2^(CoordBits - 1) - 1

wrapping_add(a, b) == ((a + b - CoordMin) % 2^CoordBits) + CoordMin

\* The position as it is in the TestSpec.
apply_offset_unshifted(pos, offset) == pos

\* executor.rs 18-24
apply_offset(pos, offset) ==
    <<wrapping_add(pos[1], offset[1]), wrapping_add(pos[2], offset[2]),
      wrapping_add(pos[3], offset[3])>>

\* executor.rs 20-22: does one of the three additions leave the range of i32
overflows(pos, offset) ==
    \E k \in 1..3 : pos[k] + offset[k] < CoordMin \/ pos[k] + offset[k] > CoordMax

\* A failed command of the run passed over: the run goes on to unfreeze.
command_failed_passed_over == "unfreeze"

\* executor.rs 70, 74, 110, 117, 131: `self.bot.send_command(..).await?` in
\* run_tests_parallel.  On Err the `?` returns the error from the function;
\* this is the position the run is in afterwards.
command_failed == "error"

\* u32, scaled to TickBits bits: the largest tick number
TickTypeMax == 2^TickBits - 1

\* executor.rs 113: `current_tick += 1` on a u32.  Past the largest value the
\* build decides: with overflow checks the statement panics, without them the
\* counter wraps to 0.
tick_increment(tick) ==
    IF tick < TickTypeMax
    THEN {[panic |-> FALSE, v |-> tick + 1]}
    ELSE {[panic |-> TRUE, v |-> tick], [panic |-> FALSE, v |-> 0]}

\* The n calls of one step issued together and awaited together.
issue_all_then_await(n, done) ==
    [j \in 1..n |-> [issued |-> 2 * done + j, completed |-> 2 * done + n + j]]

\* executor.rs 78-114 and 290-451: every command and query is awaited before
\* the next statement runs.  The stamps of n calls made one after the other,
\* after `done` earlier calls: call j is issued at 2(done+j)-1 and its await
\* returns at 2(done+j).
await_each(n, done) ==
    [j \in 1..n |-> [issued |-> 2 * (done + j) - 1, completed |-> 2 * (done + j)]]

\* The comparison taken in both directions over both normalised identifiers.
check_success_bidirectional(is, actual_block) ==
    LET expected_name == trim_start_matches(chars(is), NamespacePrefix)
    IN  IF actual_block.some
        THEN LET actual_lower ==
                     remove_char(to_lowercase(trim_start_matches(chars(actual_block.v),
                                                                 NamespacePrefix)), "_")
                 expected_lower == remove_char(to_lowercase(expected_name), "_")
             IN  IF contains(actual_lower, expected_lower)
                 THEN TRUE
                 ELSE contains(expected_lower, actual_lower)
        ELSE FALSE

\* One check of an Assert entry (executor.rs 378-386).
check_success(is, actual_block) ==
    LET expected_name == trim_start_matches(chars(is), NamespacePrefix)
    IN  IF actual_block.some
        THEN LET actual_lower == to_lowercase(chars(actual_block.v))
                 expected_lower == remove_char(to_lowercase(expected_name), "_")
             IN  \/ contains(actual_lower, expected_lower)
                 \/ contains(remove_char(actual_lower, "_"), expected_lower)
        ELSE FALSE

\* The comparison of an AssertState occurrence (executor.rs 420-424).
state_success(expected_value, actual_value) ==
    IF actual_value.some
    THEN contains(chars(actual_value.v), chars(expected_value))
    ELSE FALSE

\* An index past the end answered with a default instead of a panic.
values_index_or_default(values, value_idx) ==
    IF value_idx \in 1..Len(values) THEN Some(values[value_idx]) ELSE Some("")

\* values[value_idx] (executor.rs 418): an index past the end panics, which
\* None stands for here.
values_index(values, value_idx) ==
    IF value_idx \in 1..Len(values) THEN Some(values[value_idx]) ELSE None

Returned(ret, io) == [ret |-> ret, io |-> io]

NoCall == [ret |-> "", io |-> << >>, answers |-> << >>, fail |-> 0, test |-> 0,
           entry |-> 0, value_idx |-> 0, before |-> <<0, 0>>]

\* The loop of PlaceEach from placement j on; `fail` is the transmission that
\* returns Err (0: none).
RECURSIVE place_each(_, _, _, _)
place_each(blocks, j, offset, fail) ==
    IF j > Len(blocks) THEN Returned("Ok(false)", <<>>)
    ELSE IF fail = j THEN Returned("Err", <<>>)
    ELSE LET rest == place_each(blocks, j + 1, offset, fail)
             cmd == SetblockCmd(apply_offset(blocks[j].pos, offset), blocks[j].block)
         IN  Returned(rest.ret, <<cmd>> \o rest.io)

\* Checks evaluated to the end of the list, whatever the earlier ones gave.
RECURSIVE check_loop_exhaustive(_, _, _, _, _)
check_loop_exhaustive(checks, j, offset, fail, answers) ==
    IF j > Len(checks) THEN Returned("Ok(true)", <<>>)
    ELSE IF fail = j THEN Returned("Err", <<>>)
    ELSE LET query == GetBlock(apply_offset(checks[j].pos, offset))
             actual_block == get_block(answers[j])
             rest == check_loop_exhaustive(checks, j + 1, offset, fail, answers)
         IN  IF check_success(checks[j].is, actual_block)
             THEN Returned(rest.ret, <<query>> \o rest.io)
             ELSE Returned("Err", <<query>> \o rest.io)

\* The loop of an Assert entry from check j on: the first transmission error
\* or mismatch returns Err at once.
RECURSIVE check_loop(_, _, _, _, _)
check_loop(checks, j, offset, fail, answers) ==
    IF j > Len(checks) THEN Returned("Ok(true)", <<>>)
    ELSE IF fail = j THEN Returned("Err", <<>>)
    ELSE LET query == GetBlock(apply_offset(checks[j].pos, offset))
             actual_block == get_block(answers[j])
         IN  IF check_success(checks[j].is, actual_block)
             THEN LET rest == check_loop(checks, j + 1, offset, fail, answers)
                  IN  Returned(rest.ret, <<query>> \o rest.io)
             ELSE Returned("Err", <<query>>)

\* The number of backend transmissions an action attempts at most.
transmissions(action_type) ==
    CASE action_type.type = "PlaceEach" -> Len(action_type.blocks)
      [] action_type.type = "Assert" -> Len(action_type.checks)
      [] OTHER -> 1

\* The number of state queries among them.
queries(action_type) ==
    CASE action_type.type = "Assert" -> Len(action_type.checks)
      [] action_type.type = "AssertState" -> 1
      [] OTHER -> 0

\* TestExecutor::execute_action.  value_idx counts from 1 here (the code's
\* value_idx + 1).  The result is Ok(true), Ok(false), Err or a panic, with
\* the events that reached the backend.
execute_action(entry, value_idx, offset, fail, answers) ==
    LET a == entry.action_type IN
    CASE a.type = "Place" ->
            IF fail = 1 THEN Returned("Err", <<>>)
            ELSE Returned("Ok(false)", <<SetblockCmd(apply_offset(a.pos, offset), a.block)>>)
      [] a.type = "PlaceEach" -> place_each(a.blocks, 1, offset, fail)
      [] a.type = "Fill" ->
            IF fail = 1 THEN Returned("Err", <<>>)
            ELSE Returned("Ok(false)",
                          <<FillCmd(apply_offset(a.region[1], offset),
                                    apply_offset(a.region[2], offset), a.with)>>)
      [] a.type = "Remove" ->
            IF fail = 1 THEN Returned("Err", <<>>)
            ELSE Returned("Ok(false)", <<SetblockCmd(apply_offset(a.pos, offset), "air")>>)
      [] a.type = "Assert" -> check_loop(a.checks, 1, offset, fail, answers)
      [] a.type = "AssertState" ->
            IF fail = 1 THEN Returned("Err", <<>>)
            ELSE LET query == GetBlockStateProperty(apply_offset(a.pos, offset), a.state)
                     actual_value == get_block_state_property(answers[1], a.state)
                     expected_value == values_index(a.values, value_idx)
                 IN  IF ~expected_value.some
                     THEN Returned("panic", <<query>>)
                     ELSE IF state_success(expected_value.v, actual_value)
                          THEN Returned("Ok(true)", <<query>>)
                          ELSE Returned("Err", <<query>>)

\* The expansion of one test's timeline (executor.rs 44-52): one triple per
\* occurrence, entries in declaration order, occurrences in `at` order.
expand_entry(test_idx, entry_idx, entry) ==
    [i \in 1..Len(entry.at) |-> <<entry.at[i], <<test_idx, entry_idx, i>>>>]

\* The entries of a test pushed last-declared first.
expand_test_reversed(test_idx, test) ==
    Flatten([e \in 1..Len(test.timeline) |->
                expand_entry(test_idx, Len(test.timeline) + 1 - e,
                             test.timeline[Len(test.timeline) + 1 - e])])

expand_test(test_idx, test) ==
    Flatten([e \in 1..Len(test.timeline) |-> expand_entry(test_idx, e, test.timeline[e])])

\* Every <<tick, <<test_idx, entry_idx, value_idx>>>> in the order of the pushes.
expanded(tests) ==
    Flatten([t \in 1..Len(tests) |-> expand_test(t, tests[t][1])])

bucket(pushes, tick) ==
    LET due == SelectSeq(pushes, LAMBDA x : x[1] = tick)
    IN  [i \in 1..Len(due) |-> due[i][2]]

\* global_timeline after the build loop (executor.rs 34-53): a map whose keys
\* are the ticks that have an occurrence.
build_global_timeline(tests) ==
    LET pushes == expanded(tests)
    IN  [tick \in {pushes[i][1] : i \in 1..Len(pushes)} |-> bucket(pushes, tick)]

\* max_global_tick after the build loop (executor.rs 35-41)
build_max_global_tick(tests) ==
    SetMax({max_tick(tests[t][1]) : t \in 1..Len(tests)})

\* A cleanup command that leaves the test's offset out.
cleanup_cmd_unshifted(pair) ==
    LET region == cleanup_region(pair[1])
    IN  FillCmd(region[1], region[2], "air")

\* The cleanup command of a test (executor.rs 61-68, 122-129)
cleanup_cmd(pair) ==
    LET region == cleanup_region(pair[1])
    IN  FillCmd(apply_offset(region[1], pair[2]), apply_offset(region[2], pair[2]), "air")

\* A failure charged to every test of the list, not to the owner alone.
record_outcome_per_tick(tr, test_idx, ret) ==
    CASE ret = "Ok(true)" -> [tr EXCEPT ![test_idx] = <<@[1] + 1, @[2]>>]
      [] ret = "Ok(false)" -> tr
      [] ret = "Err" -> [i \in DOMAIN tr |-> <<tr[i][1], tr[i][2] + 1>>]

\* The match on the result of execute_action (executor.rs 87-104)
record_outcome(tr, test_idx, ret) ==
    CASE ret = "Ok(true)" -> [tr EXCEPT ![test_idx] = <<@[1] + 1, @[2]>>]
      [] ret = "Ok(false)" -> tr
      [] ret = "Err" -> [tr EXCEPT ![test_idx] = <<@[1], @[2] + 1>>]

\* The result handed on with `?`: an Err leaves the run.
after_call_propagating(ret) ==
    IF ret = "panic" THEN "panicked" ELSE IF ret = "Err" THEN "error" ELSE "loop"

\* Where the run goes after a call of execute_action: every Ok and every Err
\* is consumed by the match, a panic unwinds out of the run.
after_call(ret) == IF ret = "panic" THEN "panicked" ELSE "loop"

\* A loop that steps after every tick, the last one included.
needs_step_every_tick(tick, max) == tick <= max

\* The step condition of the tick loop (executor.rs 109)
needs_step(tick, max) == tick < max

\* A loop that leaves the last tick out.
loop_stops_before_max(tick, max) == tick < max

\* The loop condition (executor.rs 82)
loop_continues(tick, max) == tick <= max

\* A test that passed nothing reported as unsuccessful.
test_result_needs_pass(test, counters) ==
    [test_name |-> test.name, passed |-> counters[1], failed |-> counters[2],
     success |-> (counters[2] = 0 /\ counters[1] > 0)]

\* The TestResult of one test (executor.rs 139-160)
test_result(test, counters) ==
    [test_name |-> test.name, passed |-> counters[1], failed |-> counters[2],
     success |-> (counters[2] = 0)]

\* Which transmission of an action attempting n of them returns Err (0: none).
fail_points(n) ==
    IF n = 0 THEN {0}
    ELSE IF send_outcomes = {FALSE} THEN {1}
    ELSE IF send_outcomes = {TRUE} THEN {0}
    ELSE 0..n

----------------------------------------------------------------------------
\* Inputs.

Ticks == 0..MaxTick

P0 == <<0, 0, 0>>
P1 == <<1, 0, 0>>
P2 == <<1, 2, 1>>

\* The i-th test of a list runs at its own offset.
OffsetOf(i) == <<4 * (i - 1), 0, -4 * (i - 1)>>

Region == <<P0, P2>>

\* Timelines over the ticks t and u: every action variant, entries sharing a
\* tick, an entry firing several times (also twice at one tick, also with
\* its ticks out of order).
TimelineA(t, u) ==
    <<TimelineEntry(<<t>>, PlaceEach(<<[pos |-> P0, block |-> "stone"],
                                       [pos |-> P1, block |-> "dirt"]>>)),
      TimelineEntry(<<u>>, AssertBlocks(<<[pos |-> P0, is |-> "stone"]>>))>>

TimelineB(t, u) ==
    <<TimelineEntry(<<u>>, Fill(<<P0, P1>>, "stone")),
      TimelineEntry(<<t, u>>, AssertBlocks(<<[pos |-> P0, is |-> "minecraft:stone"],
                                            [pos |-> P1, is |-> "stone"]>>)),
      TimelineEntry(<<t>>, Place(P2, "lever"))>>

TimelineC(t, u) ==
    <<TimelineEntry(<<t, u>>, AssertState(P2, "powered", <<"true", "false">>)),
      TimelineEntry(<<u>>, Remove(P2))>>

Timelines ==
    {<<>>} \cup {TimelineA(t, u) : t, u \in Ticks}
           \cup {TimelineB(t, u) : t, u \in Ticks}
           \cup {TimelineC(t, u) : t, u \in Ticks}

\* The timelines of the tests that run beside the first one.
Siblings == {TimelineA(0, MaxTick), TimelineC(MaxTick, 0)}

\* The names of the tests of a list, by position.
TestNames == <<"first", "second", "third", "fourth">>

WithOffsets(ts) ==
    [i \in 1..Len(ts) |-> <<[ts[i] EXCEPT !.name = TestNames[i]], OffsetOf(i)>>]

\* The lists of at most MaxTests tests: the first test has any timeline of
\* `pool`, the tests after it any of `siblings`.
TestLists(pool, siblings) ==
    {WithOffsets(ts) :
        ts \in {<<>>} \cup
               {<<TestSpec(tl, Region)>> \o rest :
                   tl \in pool,
                   rest \in SeqsUpTo({TestSpec(sl, Region) : sl \in siblings}, MaxTests - 1)}}

\* A multi-occurrence AssertState whose values list is shorter than, as long
\* as, or longer than its `at` list.
TimelineD(t, u, values) ==
    <<TimelineEntry(<<u>>, Place(P2, "lever")),
      TimelineEntry(<<t, u>>, AssertState(P2, "powered", values)),
      TimelineEntry(<<MaxTick>>, AssertBlocks(<<[pos |-> P0, is |-> "stone"]>>))>>

IndexTimelines ==
    {TimelineD(t, u, v) : t, u \in Ticks,
                          v \in {<<>>, <<"true">>, <<"true", "false">>,
                                 <<"true", "false", "true">>}}

\* One Assert entry over identifiers that differ in
\* namespace prefix, case and separators.
ExpectedIds == {"stone", "minecraft:stone", "Stone_Bricks", "minecraft:minecraft:stone",
                "bricks", ""}

TimelineM(is) ==
    <<TimelineEntry(<<0>>, AssertBlocks(<<[pos |-> P0, is |-> is]>>))>>

MatchTimelines == {TimelineM(is) : is \in ExpectedIds}

\* The block states the backend reports in the runs of Spec.
BasicWorld == {Some("minecraft:stone"), Some("lever{ powered: true }")}

\* Block states that differ in namespace prefix, case and separators, and a
\* position that holds no block state.
MatchWorld == {None, Some("minecraft:stone"), Some("minecraft:dirt"), Some("stone_bricks"),
               Some("StoneBricks"), Some("stone")}

----------------------------------------------------------------------------
\* The run.

NoPolls == [handle |-> 0, in_game |-> 0]

\* No call of run_test or run_test_with_offset has been made.
NoSingle ==
    [pc |-> "idle", entry |-> "", offset |-> Origin, max_tick |-> 0,
     actions_by_tick |-> << >>, current_tick |-> 0, entry_pos |-> 1,
     passed |-> 0, failed |-> 0, laps |-> 0, sent |-> << >>, result |-> None]

\* No call of apply_offset on its own is under way.
NoOffsetCall == [stage |-> "none", pos |-> Origin, offset |-> Origin, value |-> Origin]

\* The bot the run is called on: after a successful connect it holds the
\* filled cell (bot.rs 82-100); a bot whose connect failed, or that never
\* connected, holds no client, whatever the background task did to the cell.
InitRun(lists, clients, links, worlds) ==
    /\ tests_with_offsets \in lists
    /\ client \in clients
    /\ client_handle \in (IF client = "Some" THEN {"Some"} ELSE {"None", "Some"})
    /\ cstate = "returned"
    /\ polls = NoPolls
    /\ task = "running"
    /\ in_game = (client = "Some")
    /\ bot_in_game = client
    /\ connect_result = (IF client = "Some" THEN "Ok" ELSE "Err")
    /\ link \in links
    /\ world \in worlds
    /\ pc = "build"
    /\ global_timeline = << >>
    /\ max_global_tick = 0
    /\ clean_idx = 1
    /\ test_results = << >>
    /\ current_tick = 0
    /\ entry_pos = 1
    /\ sent = << >>
    /\ executed = << >>
    /\ last = NoCall
    /\ visited = << >>
    /\ mismatched = << >>
    /\ results = << >>
    /\ flights = << >>
    /\ laps = 0
    /\ single = NoSingle
    /\ offset_call = NoOffsetCall

Init == InitRun(TestLists(Timelines, Siblings), {"Some", "None"}, {"up"}, {BasicWorld})

\* executor.rs 33-53: the merged timeline
Build ==
    /\ pc = "build"
    /\ cstate \in {"new", "returned"}
    /\ global_timeline' = build_global_timeline(tests_with_offsets)
    /\ max_global_tick' = build_max_global_tick(tests_with_offsets)
    /\ clean_idx' = 1
    /\ pc' = "preclean"
    /\ UNCHANGED <<flights, laps>>
    /\ UNCHANGED <<connect_vars, offset_call, single, tests_with_offsets, client, client_handle, link, world,
                   test_results, current_tick, entry_pos, sent, executed, last, visited, mismatched, results>>

\* executor.rs 60-70: one cleanup fill per test; Err returns from the run
PreClean ==
    /\ pc = "preclean"
    /\ clean_idx <= Len(tests_with_offsets)
    /\ \E ok \in send_outcomes :
         IF ok
         THEN /\ sent' = Append(sent, cleanup_cmd(tests_with_offsets[clean_idx]))
              /\ clean_idx' = clean_idx + 1
              /\ pc' = pc
         ELSE /\ pc' = command_failed
              /\ UNCHANGED <<sent, clean_idx>>
    /\ flights' = flights \o await_each(Len(sent') - Len(sent), Len(flights))
    /\ UNCHANGED laps
    /\ UNCHANGED <<connect_vars, offset_call, single, tests_with_offsets, client, client_handle, link, world,
                   global_timeline, max_global_tick, test_results, current_tick,
                   entry_pos, executed, last, visited, mismatched, results>>

\* executor.rs 74-81: freeze, then the counters and the tick start at zero
Freeze ==
    /\ pc = "preclean"
    /\ clean_idx > Len(tests_with_offsets)
    /\ \E ok \in send_outcomes :
         IF ok
         THEN /\ sent' = Append(sent, TickCmd("tick freeze"))
              /\ test_results' = [i \in 1..Len(tests_with_offsets) |-> <<0, 0>>]
              /\ current_tick' = 0
              /\ entry_pos' = 1
              /\ pc' = IF loop_continues(0, max_global_tick) THEN "loop" ELSE "unfreeze"
              /\ visited' = IF loop_continues(0, max_global_tick) THEN <<0>> ELSE << >>
              /\ mismatched' = [i \in 1..Len(tests_with_offsets) |-> 0]
         ELSE /\ pc' = command_failed
              /\ UNCHANGED <<sent, test_results, current_tick, entry_pos, visited,
                             mismatched>>
    /\ flights' = flights \o await_each(Len(sent') - Len(sent), Len(flights))
    /\ UNCHANGED laps
    /\ UNCHANGED <<connect_vars, offset_call, single, tests_with_offsets, client, client_handle, link, world,
                   global_timeline, max_global_tick, clean_idx, executed, last, results>>

\* Whether an action compares backend state with an expectation, and whether
\* the comparison holds of the block states `answers` (one per position the
\* action names): the record of what the backend held, kept beside the run.
compared(action_type, value_idx) ==
    \/ action_type.type = "Assert"
    \/ action_type.type = "AssertState" /\ value_idx \in 1..Len(action_type.values)

holds(action_type, value_idx, answers) ==
    IF action_type.type = "Assert"
    THEN \A j \in 1..Len(action_type.checks) :
            check_success(action_type.checks[j].is, answers[j])
    ELSE state_success(action_type.values[value_idx],
                       get_block_state_property(answers[1], action_type.state))

\* The queries among the events of one action: each was answered.
answered(io) == Len(SelectSeq(io, LAMBDA e : e.op \in {"get_block", "get_block_state_property"}))

\* The step commands sent so far.
steps_sent == Len(SelectSeq(sent, LAMBDA e : e.op = "tick step 1"))

due_now ==
    IF current_tick \in DOMAIN global_timeline
    THEN global_timeline[current_tick]
    ELSE << >>

\* executor.rs 84-105: the next entry of the bucket of current_tick
ExecuteDue ==
    /\ pc = "loop"
    /\ entry_pos <= Len(due_now)
    /\ LET test_idx == due_now[entry_pos][1]
           entry_idx == due_now[entry_pos][2]
           value_idx == due_now[entry_pos][3]
           entry == tests_with_offsets[test_idx][1].timeline[entry_idx]
           offset == tests_with_offsets[test_idx][2]
           n == transmissions(entry.action_type)
       IN  \E fail \in fail_points(n),
              answers \in [1..queries(entry.action_type) -> world] :
             LET r == execute_action(entry, value_idx, offset, fail, answers)
                 \* the call ended in the Err of transmission `fail`
                 cut == r.ret = "Err" /\ fail # 0 /\ Len(r.io) = fail - 1
             IN  /\ sent' = sent \o r.io
                 /\ executed' = Append(executed,
                        [tick |-> current_tick, test |-> test_idx, entry |-> entry_idx,
                         value_idx |-> value_idx, steps |-> steps_sent])
                 /\ last' = [ret |-> r.ret, io |-> r.io,
                             answers |-> SubSeq(answers, 1, answered(r.io)),
                             fail |-> IF cut THEN fail ELSE 0,
                             test |-> test_idx, entry |-> entry_idx,
                             value_idx |-> value_idx, before |-> test_results[test_idx]]
                 /\ mismatched' =
                        IF ~cut /\ compared(entry.action_type, value_idx)
                                /\ ~holds(entry.action_type, value_idx, answers)
                        THEN [mismatched EXCEPT ![test_idx] = @ + 1]
                        ELSE mismatched
                 /\ pc' = after_call(r.ret)
                 /\ IF r.ret = "panic"
                    THEN UNCHANGED <<test_results, entry_pos>>
                    ELSE /\ test_results' = record_outcome(test_results, test_idx, r.ret)
                         /\ entry_pos' = entry_pos + 1
    /\ flights' = flights \o await_each(Len(sent') - Len(sent), Len(flights))
    /\ UNCHANGED laps
    /\ UNCHANGED <<connect_vars, offset_call, single, tests_with_offsets, client, client_handle, link, world,
                   global_timeline, max_global_tick, clean_idx, current_tick,
                   visited, results>>

\* executor.rs 108-114 and 82: the bucket is done; step unless this was the
\* last tick, count the tick up, and test the loop condition
AdvanceTick ==
    /\ pc = "loop"
    /\ entry_pos > Len(due_now)
    /\ \E ok \in (IF needs_step(current_tick, max_global_tick) THEN send_outcomes ELSE {TRUE}),
          next \in tick_increment(current_tick) :
         IF ~ok
         THEN /\ pc' = command_failed
              /\ UNCHANGED <<sent, current_tick, entry_pos, visited, laps>>
         ELSE /\ sent' = IF needs_step(current_tick, max_global_tick)
                         THEN Append(sent, TickCmd("tick step 1"))
                         ELSE sent
              /\ IF next.panic
                 THEN /\ pc' = "panicked"
                      /\ UNCHANGED <<current_tick, entry_pos, visited, laps>>
                 ELSE /\ next.v = 0 => laps < MaxLaps
                      /\ laps' = IF next.v = 0 THEN laps + 1 ELSE laps
                      /\ current_tick' = next.v
                      /\ entry_pos' = 1
                      /\ pc' = IF loop_continues(next.v, max_global_tick)
                               THEN "loop" ELSE "unfreeze"
                      /\ visited' = IF loop_continues(next.v, max_global_tick)
                                    THEN Append(visited, next.v) ELSE visited
    /\ flights' = flights \o await_each(Len(sent') - Len(sent), Len(flights))
    /\ UNCHANGED <<connect_vars, offset_call, single, tests_with_offsets, client, client_handle, link, world,
                   global_timeline, max_global_tick, clean_idx, test_results,
                   executed, last, mismatched, results>>

\* executor.rs 117
Unfreeze ==
    /\ pc = "unfreeze"
    /\ \E ok \in send_outcomes :
         IF ok
         THEN /\ sent' = Append(sent, TickCmd("tick unfreeze"))
              /\ clean_idx' = 1
              /\ pc' = "postclean"
         ELSE /\ pc' = command_failed
              /\ UNCHANGED <<sent, clean_idx>>
    /\ flights' = flights \o await_each(Len(sent') - Len(sent), Len(flights))
    /\ UNCHANGED laps
    /\ UNCHANGED <<connect_vars, offset_call, single, tests_with_offsets, client, client_handle, link, world,
                   global_timeline, max_global_tick, test_results, current_tick,
                   entry_pos, executed, last, visited, mismatched, results>>

\* executor.rs 121-131
PostClean ==
    /\ pc = "postclean"
    /\ clean_idx <= Len(tests_with_offsets)
    /\ \E ok \in send_outcomes :
         IF ok
         THEN /\ sent' = Append(sent, cleanup_cmd(tests_with_offsets[clean_idx]))
              /\ clean_idx' = clean_idx + 1
              /\ pc' = pc
         ELSE /\ pc' = command_failed
              /\ UNCHANGED <<sent, clean_idx>>
    /\ flights' = flights \o await_each(Len(sent') - Len(sent), Len(flights))
    /\ UNCHANGED laps
    /\ UNCHANGED <<connect_vars, offset_call, single, tests_with_offsets, client, client_handle, link, world,
                   global_timeline, max_global_tick, test_results, current_tick,
                   entry_pos, executed, last, visited, mismatched, results>>

\* executor.rs 135-164: one TestResult per test, in list order
BuildResults ==
    /\ pc = "postclean"
    /\ clean_idx > Len(tests_with_offsets)
    /\ results' = [i \in 1..Len(tests_with_offsets) |->
                       test_result(tests_with_offsets[i][1], test_results[i])]
    /\ pc' = "done"
    /\ UNCHANGED <<flights, laps>>
    /\ UNCHANGED <<connect_vars, offset_call, single, tests_with_offsets, client, client_handle, link, world,
                   global_timeline, max_global_tick, clean_idx, test_results,
                   current_tick, entry_pos, sent, executed, last, visited,
                   mismatched>>

Next ==
    \/ Build
    \/ PreClean
    \/ Freeze
    \/ ExecuteDue
    \/ AdvanceTick
    \/ Unfreeze
    \/ PostClean
    \/ BuildResults

Spec == Init /\ [][Next]_vars

\* Runs in which a call of the bot may return Err inside the tick loop: the
\* Result of send_command, get_block and get_block_state_property as the
\* executor handles it.  (The TestBot of bot.rs returns Err only while it
\* holds no client, and a run on such a bot ends at its first command.)
InitFault == InitRun(TestLists({TimelineA(t, u) : t, u \in Ticks}, Siblings),
                     {"Some"}, {"flaky"}, {BasicWorld})

SpecFault == InitFault /\ [][Next]_vars

\* The block states of the runs of SpecState: no state at the position, a
\* state with the property, a state without it that holds the expected text,
\* and a state with neither.
StateWorld == {None, Some("lever{ powered: true }"), Some("piston{ extended: true }"),
               Some("minecraft:stone")}

StateTimelines == {TimelineC(t, u) : t, u \in Ticks}

InitState == InitRun(TestLists(StateTimelines, Siblings), {"Some"}, {"up"}, {StateWorld})

SpecState == InitState /\ [][Next]_vars

\* Runs whose last tick is the largest tick number, beside runs that end
\* on tick 0.
WrapTimelines == {TimelineA(0, 0), TimelineA(0, TickTypeMax), TimelineA(TickTypeMax, 0)}

InitWrap == InitRun(TestLists(WrapTimelines, {TimelineA(0, 0)}), {"Some"}, {"up"}, {BasicWorld})

SpecWrap == InitWrap /\ [][Next]_vars

\* Runs over AssertState entries whose values list need not match `at`.
InitIndex == InitRun(TestLists(IndexTimelines, Siblings), {"Some"}, {"up"}, {BasicWorld})

SpecIndex == InitIndex /\ [][Next]_vars

\* Runs over Assert entries and block states of many spellings.
InitMatch == InitRun(TestLists(MatchTimelines, MatchTimelines), {"Some"}, {"up"}, {MatchWorld})

SpecMatch == InitMatch /\ [][Next]_vars

----------------------------------------------------------------------------
\* TestBot::connect and the background task it spawns (bot.rs 35-107).

\* The attempts of the two polling loops (bot.rs 75, 88).
HandleWindow == 50
InGameWindow == 100

\* A polling loop that only a sighting ends.
poll_until_seen(count, window, seen) == IF seen THEN "check" ELSE "poll"

\* Where a polling loop goes after its count-th poll: it breaks when the
\* poll saw what it waits for, and ends with the window (bot.rs 75-80, 88-93).
poll_next(count, window, seen) ==
    IF seen THEN "check" ELSE IF count >= window THEN "check" ELSE "poll"

\* The run's own variables, which connect and the background task leave alone.
run_vars_but_offset ==
    <<tests_with_offsets, link, world, pc, global_timeline, max_global_tick,
      clean_idx, test_results, current_tick, entry_pos, sent, executed, last,
      visited, mismatched, results, flights, laps, single>>

run_vars == <<run_vars_but_offset, offset_call>>

\* A fresh TestBot (bot.rs 28-33) and the inputs of the run made on it later.
InitConnect ==
    /\ tests_with_offsets \in TestLists({TimelineA(0, 0)}, {TimelineA(0, 0)})
    /\ client = "None"
    /\ client_handle = "None"
    /\ cstate = "new"
    /\ polls = NoPolls
    /\ task = "absent"
    /\ in_game = FALSE
    /\ bot_in_game = "None"
    /\ connect_result = ""
    /\ link = "up"
    /\ world = BasicWorld
    /\ pc = "build"
    /\ global_timeline = << >>
    /\ max_global_tick = 0
    /\ clean_idx = 1
    /\ test_results = << >>
    /\ current_tick = 0
    /\ entry_pos = 1
    /\ sent = << >>
    /\ executed = << >>
    /\ last = NoCall
    /\ visited = << >>
    /\ mismatched = << >>
    /\ results = << >>
    /\ flights = << >>
    /\ laps = 0
    /\ single = NoSingle
    /\ offset_call = NoOffsetCall

\* bot.rs 40-72: a fresh State (empty cell, flag false) and the spawned task
Connect ==
    /\ cstate = "new"
    /\ pc = "build"
    /\ cstate' = "window1"
    /\ task' = "running"
    /\ client_handle' = "None"
    /\ in_game' = FALSE
    /\ polls' = NoPolls
    /\ UNCHANGED <<run_vars, client, bot_in_game, connect_result>>

\* bot.rs 49-52: Event::Init fills the cell
HandlerInit ==
    /\ task = "running"
    /\ client_handle = "None"
    /\ client_handle' = "Some"
    /\ UNCHANGED <<run_vars, client, cstate, polls, task, in_game, bot_in_game,
                   connect_result>>

\* bot.rs 53-57: Event::Login sets the flag
HandlerLogin ==
    /\ task = "running"
    /\ ~in_game
    /\ in_game' = TRUE
    /\ UNCHANGED <<run_vars, client, client_handle, cstate, polls, task, bot_in_game,
                   connect_result>>

\* bot.rs 63-71: start() returns, with or without an error; no event follows
TaskEnds ==
    /\ task = "running"
    /\ task' = "ended"
    /\ UNCHANGED <<run_vars, client, client_handle, cstate, polls, in_game, bot_in_game,
                   connect_result>>

\* bot.rs 75-80: sleep, then look at the cell
PollHandle ==
    /\ cstate = "window1"
    /\ polls' = [polls EXCEPT !.handle = @ + 1]
    /\ cstate' = IF poll_next(polls.handle + 1, HandleWindow, client_handle = "Some") = "check"
                 THEN "check1" ELSE "window1"
    /\ UNCHANGED <<run_vars, client, client_handle, task, in_game, bot_in_game,
                   connect_result>>

\* bot.rs 82-84: the cell is read once more; still empty, connect bails
CheckHandle ==
    /\ cstate = "check1"
    /\ IF client_handle = "None"
       THEN /\ connect_result' = "Err"
            /\ cstate' = "returned"
            /\ polls' = NoPolls
       ELSE /\ cstate' = "window2"
            /\ UNCHANGED <<connect_result, polls>>
    /\ UNCHANGED <<run_vars, client, client_handle, task, in_game, bot_in_game>>

\* bot.rs 88-93: sleep, then look at the flag
PollInGame ==
    /\ cstate = "window2"
    /\ polls' = [polls EXCEPT !.in_game = @ + 1]
    /\ cstate' = IF poll_next(polls.in_game + 1, InGameWindow, in_game) = "check"
                 THEN "check2" ELSE "window2"
    /\ UNCHANGED <<run_vars, client, client_handle, task, in_game, bot_in_game,
                   connect_result>>

\* connect returning Ok after the second window whether or not the flag is
\* set.
CheckInGame_without_flag ==
    /\ cstate = "check2"
    /\ client' = "Some"
    /\ bot_in_game' = "Some"
    /\ connect_result' = "Ok"
    /\ cstate' = "returned"
    /\ polls' = NoPolls
    /\ UNCHANGED <<run_vars, client_handle, task, in_game>>

\* bot.rs 95-106: the flag is read once more; still false, connect bails;
\* otherwise the bot takes the cell and the flag and connect returns Ok
CheckInGame ==
    /\ cstate = "check2"
    /\ IF in_game
       THEN /\ client' = "Some"
            /\ bot_in_game' = "Some"
            /\ connect_result' = "Ok"
       ELSE /\ connect_result' = "Err"
            /\ UNCHANGED <<client, bot_in_game>>
    /\ cstate' = "returned"
    /\ polls' = NoPolls
    /\ UNCHANGED <<run_vars, client_handle, task, in_game>>

\* connect, the background task, and the run made on the bot afterwards.
NextConnect ==
    \/ Connect
    \/ HandlerInit
    \/ HandlerLogin
    \/ TaskEnds
    \/ PollHandle
    \/ CheckHandle
    \/ PollInGame
    \/ CheckInGame
    \/ Next

SpecConnect == InitConnect /\ [][NextConnect]_vars

----------------------------------------------------------------------------
\* apply_offset called on its own, on the values of i32 where the additions
\* stay in range and where they leave it.

\* Coordinates at and next to the two ends of i32, and around zero.
CoordSamples == {CoordMin, -1, 1, CoordMax}

Positions == {<<x, y, z>> : x \in CoordSamples, y \in {-1, CoordMax}, z \in {1, CoordMin}}

InitOffset ==
    /\ tests_with_offsets = << >>
    /\ client = "None"
    /\ client_handle = "None"
    /\ cstate = "new"
    /\ polls = NoPolls
    /\ task = "absent"
    /\ in_game = FALSE
    /\ bot_in_game = "None"
    /\ connect_result = ""
    /\ link = "up"
    /\ world = BasicWorld
    /\ pc = "idle"
    /\ global_timeline = << >>
    /\ max_global_tick = 0
    /\ clean_idx = 1
    /\ test_results = << >>
    /\ current_tick = 0
    /\ entry_pos = 1
    /\ sent = << >>
    /\ executed = << >>
    /\ last = NoCall
    /\ visited = << >>
    /\ mismatched = << >>
    /\ results = << >>
    /\ flights = << >>
    /\ laps = 0
    /\ single = NoSingle
    /\ offset_call \in {[stage |-> "called", pos |-> p, offset |-> o, value |-> Origin] :
                          p \in Positions, o \in Positions}

\* executor.rs 18-24.  The three sums are plain `+` on i32: a sum outside the
\* range panics in a build with overflow checks and wraps in one without.
ApplyOffset ==
    /\ offset_call.stage = "called"
    /\ \E checked \in BOOLEAN :
         offset_call' =
             IF checked /\ overflows(offset_call.pos, offset_call.offset)
             THEN [offset_call EXCEPT !.stage = "panicked"]
             ELSE [offset_call EXCEPT !.stage = "returned",
                                      !.value = apply_offset(offset_call.pos,
                                                             offset_call.offset)]
    /\ UNCHANGED <<connect_vars, run_vars_but_offset, client, client_handle>>

NextOffset == ApplyOffset

SpecOffset == InitOffset /\ [][NextOffset]_vars

----------------------------------------------------------------------------
\* The single-test path: run_test and run_test_with_offset
\* (executor.rs 167-288), called on the bot for the one test of a
\* one-element list, beside run_tests_parallel on that list.

\* Everything but the locals of the single-test path.
all_but_single ==
    <<connect_vars, offset_call, tests_with_offsets, client, client_handle, link, world,
      pc, global_timeline, max_global_tick, clean_idx, test_results, current_tick,
      entry_pos, sent, executed, last, visited, mismatched, results, flights, laps>>

\* The test handed to the single-test path.
single_test == tests_with_offsets[1][1]

\* The entries pushed last-declared first.
single_expanded_reversed(test) ==
    Flatten([e \in 1..Len(test.timeline) |->
                LET d == Len(test.timeline) + 1 - e
                IN  [i \in 1..Len(test.timeline[d].at) |->
                        <<test.timeline[d].at[i], <<d, i>>>>]])

\* executor.rs 196-203: expanded_entries, one <<tick, <<entry, idx>>>> per
\* occurrence, entries in declaration order, occurrences in `at` order
single_expanded(test) ==
    Flatten([e \in 1..Len(test.timeline) |->
                [i \in 1..Len(test.timeline[e].at) |->
                    <<test.timeline[e].at[i], <<e, i>>>>]])

\* executor.rs 206-212: the expanded entries grouped by tick, in push order
actions_by_tick(test) ==
    LET pushes == single_expanded(test)
    IN  [tick \in {pushes[i][1] : i \in 1..Len(pushes)} |->
            LET due == SelectSeq(pushes, LAMBDA x : x[1] = tick)
            IN  [i \in 1..Len(due) |-> due[i][2]]]

\* executor.rs 173-180: the locals of a call with this offset
begin(entry, offset) ==
    [NoSingle EXCEPT !.pc = "preclean", !.entry = entry, !.offset = offset,
                     !.max_tick = max_tick(single_test)]

\* executor.rs 223: actions_by_tick.get(&current_tick)
single_due ==
    IF single.current_tick \in DOMAIN single.actions_by_tick
    THEN single.actions_by_tick[single.current_tick]
    ELSE << >>

\* executor.rs 168-170: run_test calls run_test_with_offset with [0, 0, 0]
RunTest ==
    /\ single.pc = "idle"
    /\ Len(tests_with_offsets) = 1
    /\ single' = begin("run_test", Origin)
    /\ UNCHANGED all_but_single

\* executor.rs 173-180, called with the offset the list pairs the test with
RunTestWithOffset ==
    /\ single.pc = "idle"
    /\ Len(tests_with_offsets) = 1
    /\ single' = begin("run_test_with_offset", tests_with_offsets[1][2])
    /\ UNCHANGED all_but_single

\* executor.rs 182-193: the cleanup fill before the test
SinglePreClean ==
    /\ single.pc = "preclean"
    /\ \E ok \in send_outcomes :
         single' = IF ok
                   THEN [single EXCEPT
                            !.sent = Append(@, cleanup_cmd(<<single_test, single.offset>>)),
                            !.pc = "freeze"]
                   ELSE [single EXCEPT !.pc = "error"]
    /\ UNCHANGED all_but_single

\* executor.rs 195-219: the grouping by tick, the freeze command, and the
\* tick and the counters at zero
SingleFreeze ==
    /\ single.pc = "freeze"
    /\ \E ok \in send_outcomes :
         single' = IF ok
                   THEN [single EXCEPT
                            !.actions_by_tick = actions_by_tick(single_test),
                            !.sent = Append(@, TickCmd("tick freeze")),
                            !.current_tick = 0,
                            !.entry_pos = 1,
                            !.passed = 0,
                            !.failed = 0,
                            !.pc = IF 0 <= single.max_tick THEN "loop" ELSE "unfreeze"]
                   ELSE [single EXCEPT !.pc = "error"]
    /\ UNCHANGED all_but_single

\* executor.rs 223-243: the next entry due at current_tick
SingleExecuteDue ==
    /\ single.pc = "loop"
    /\ single.entry_pos <= Len(single_due)
    /\ LET entry == single_test.timeline[single_due[single.entry_pos][1]]
           value_idx == single_due[single.entry_pos][2]
       IN  \E fail \in fail_points(transmissions(entry.action_type)),
              answers \in [1..queries(entry.action_type) -> world] :
             LET r == execute_action(entry, value_idx, single.offset, fail, answers)
             IN  single' =
                    IF r.ret = "panic"
                    THEN [single EXCEPT !.sent = @ \o r.io, !.pc = "panicked"]
                    ELSE [single EXCEPT
                             !.sent = @ \o r.io,
                             !.passed = IF r.ret = "Ok(true)" THEN @ + 1 ELSE @,
                             !.failed = IF r.ret = "Err" THEN @ + 1 ELSE @,
                             !.entry_pos = @ + 1]
    /\ UNCHANGED all_but_single

\* executor.rs 245-251 and 222: step unless this was the last tick, count
\* the tick up, and test the loop condition
SingleAdvanceTick ==
    /\ single.pc = "loop"
    /\ single.entry_pos > Len(single_due)
    /\ \E ok \in (IF single.current_tick < single.max_tick THEN send_outcomes ELSE {TRUE}),
          next \in tick_increment(single.current_tick) :
         LET stepped == IF single.current_tick < single.max_tick
                        THEN Append(single.sent, TickCmd("tick step 1"))
                        ELSE single.sent
         IN  IF ~ok
             THEN single' = [single EXCEPT !.pc = "error"]
             ELSE IF next.panic
             THEN single' = [single EXCEPT !.sent = stepped, !.pc = "panicked"]
             ELSE /\ next.v = 0 => single.laps < MaxLaps
                  /\ single' = [single EXCEPT
                                   !.sent = stepped,
                                   !.laps = IF next.v = 0 THEN @ + 1 ELSE @,
                                   !.current_tick = next.v,
                                   !.entry_pos = 1,
                                   !.pc = IF next.v <= single.max_tick
                                          THEN "loop" ELSE "unfreeze"]
    /\ UNCHANGED all_but_single

\* executor.rs 254
SingleUnfreeze ==
    /\ single.pc = "unfreeze"
    /\ \E ok \in send_outcomes :
         single' = IF ok
                   THEN [single EXCEPT !.sent = Append(@, TickCmd("tick unfreeze")),
                                       !.pc = "postclean"]
                   ELSE [single EXCEPT !.pc = "error"]
    /\ UNCHANGED all_but_single

\* executor.rs 256-268: the cleanup fill after the test
SinglePostClean ==
    /\ single.pc = "postclean"
    /\ \E ok \in send_outcomes :
         single' = IF ok
                   THEN [single EXCEPT
                            !.sent = Append(@, cleanup_cmd(<<single_test, single.offset>>)),
                            !.pc = "return"]
                   ELSE [single EXCEPT !.pc = "error"]
    /\ UNCHANGED all_but_single

\* executor.rs 270-287: the TestResult of the call
SingleReturn ==
    /\ single.pc = "return"
    /\ single' = [single EXCEPT
                     !.result = Some([test_name |-> single_test.name,
                                      passed |-> single.passed,
                                      failed |-> single.failed,
                                      success |-> (single.failed = 0)]),
                     !.pc = "done"]
    /\ UNCHANGED all_but_single

\* The offsets a test is paired with.
Offsets == {Origin, OffsetOf(2)}

\* The one-element lists.
\* The timelines of Spec, and one whose AssertState has fewer values than
\* ticks.
SingleTimelines == Timelines \cup {TimelineD(0, MaxTick, <<"true">>)}

SingleLists ==
    {<<<<[TestSpec(tl, Region) EXCEPT !.name = TestNames[1]], o>>>> :
        tl \in SingleTimelines, o \in Offsets}

\* A backend that holds the same block state at every position, so that the
\* two paths are answered alike.
UniformWorlds == {{w} : w \in StateWorld}

InitSingle == InitRun(SingleLists, {"Some", "None"}, {"up"}, UniformWorlds)

NextSingle ==
    \/ RunTest
    \/ RunTestWithOffset
    \/ SinglePreClean
    \/ SingleFreeze
    \/ SingleExecuteDue
    \/ SingleAdvanceTick
    \/ SingleUnfreeze
    \/ SinglePostClean
    \/ SingleReturn
    \/ Next

SpecSingle == InitSingle /\ [][NextSingle]_vars

----------------------------------------------------------------------------
\* What the input asks for, read off tests_with_offsets directly.

Tests == 1..Len(tests_with_offsets)

TimelineOf(t) == tests_with_offsets[t][1].timeline

\* Every (test, entry, occurrence index) of the input.
Occurrences ==
    UNION {UNION {{<<t, e, i>> : i \in 1..Len(TimelineOf(t)[e].at)}
                  : e \in 1..Len(TimelineOf(t))} : t \in Tests}

TickOf(o) == TimelineOf(o[1])[o[2]].at[o[3]]

ActionOf(o) == TimelineOf(o[1])[o[2]].action_type

IsAssertion(o) == ActionOf(o).type \in {"Assert", "AssertState"}

InputMaxTick == SetMax({TickOf(o) : o \in Occurrences})

Key(x) == <<x.test, x.entry, x.value_idx>>

Started == pc \in {"loop", "unfreeze", "postclean", "done"}

\* The calls of execute_action made so far for test b's assertions.
AssertionsRun(b) ==
    Cardinality({i \in 1..Len(executed) : executed[i].test = b /\ IsAssertion(Key(executed[i]))})

----------------------------------------------------------------------------
\* C1: failure isolation.  At every point of the tick loop and after it, the
\* failed counter of each test equals the number of that test's own
\* assertion occurrences that did not hold, and its passed counter the number
\* of its own that held: a failing assertion of test A changes no counter of
\* a test B, also when both are due at the same tick.  The returned results
\* carry these counters, with success exactly when the test's own failures
\* are zero.
C1_FailureIsolation ==
    /\ Started =>
          \A b \in Tests :
             /\ test_results[b][2] = mismatched[b]
             /\ test_results[b][1] = AssertionsRun(b) - mismatched[b]
    /\ pc = "done" =>
          \A b \in Tests :
             /\ results[b].failed = mismatched[b]
             /\ results[b].passed = AssertionsRun(b) - mismatched[b]
             /\ results[b].success = (mismatched[b] = 0)

\* Two tests ran an assertion at the same tick; A's failed, all of B's held.
C1_Witness ==
    /\ pc = "done"
    /\ \E a, b \in Tests :
          /\ a # b
          /\ mismatched[a] >= 1 /\ ~results[a].success /\ results[a].failed >= 1
          /\ mismatched[b] = 0 /\ results[b].success /\ results[b].passed >= 1
          /\ \E i, j \in 1..Len(executed) :
                /\ executed[i].test = a /\ executed[j].test = b
                /\ executed[i].tick = executed[j].tick
                /\ IsAssertion(Key(executed[i])) /\ IsAssertion(Key(executed[j]))
                /\ AssertionsRun(a) = mismatched[a]

SomeMismatch == \E b \in DOMAIN mismatched : mismatched[b] > 0

\* C2: an assertion mismatch never aborts the run.  Once some assertion has
\* failed, the run is never in an aborted position and no occurrence due so
\* far has been skipped; until the run is done it can take its next step; and
\* when it is done every occurrence of the input has been executed, the
\* unfreeze command and the second cleanup round have been sent and one
\* result per test has been returned.
C2_MismatchNeverAborts ==
    SomeMismatch =>
        /\ Started
        /\ pc # "done" => ENABLED Next
        /\ Len(executed) =
              Cardinality({o \in Occurrences : TickOf(o) < current_tick})
              + (IF pc = "loop" THEN entry_pos - 1 ELSE 0)
        /\ pc = "done" =>
              /\ {Key(executed[i]) : i \in 1..Len(executed)} = Occurrences
              /\ Len(executed) = Cardinality(Occurrences)
              /\ \E k \in 1..Len(sent) :
                    /\ sent[k].op = "tick unfreeze"
                    /\ Len(sent) = k + Len(tests_with_offsets)
                    /\ \A i \in Tests : sent[k + i].op = "fill"
              /\ Len(results) = Len(tests_with_offsets)

\* The first assertion of a test failed at tick 0 with further actions due at
\* tick 0 and at a later tick, and the run is done.
C2_Witness ==
    /\ pc = "done"
    /\ \E a \in Tests :
          /\ mismatched[a] >= 1
          /\ mismatched[a] = AssertionsRun(a)
          /\ \E i, j, k \in 1..Len(executed) :
                /\ i < j /\ j < k
                /\ executed[i].test = a /\ IsAssertion(Key(executed[i]))
                /\ executed[i].tick = 0 /\ executed[j].tick = 0
                /\ executed[k].tick > 0

----------------------------------------------------------------------------
----------------------------------------------------------------------------
\* The fill that clears the cleanup region of test i, translated by the
\* test's offset.
ClearCmd(i) ==
    LET region == tests_with_offsets[i][1].cleanup_region
        offset == tests_with_offsets[i][2]
    IN  [op |-> "fill",
         p |-> <<region[1][1] + offset[1], region[1][2] + offset[2], region[1][3] + offset[3]>>,
         q |-> <<region[2][1] + offset[1], region[2][2] + offset[2], region[2][3] + offset[3]>>,
         block |-> "air", prop |-> ""]

Clears(i) == Cardinality({k \in 1..Len(sent) : sent[k] = ClearCmd(i)})

Ended == pc \in {"done", "error", "panicked"}

----------------------------------------------------------------------------
\* C5: one `tick step 1` per tick below max_global_tick.  Every action runs
\* after exactly as many step commands as its tick, so the step from t to
\* t + 1 comes after all actions of tick t and before any action of tick
\* t + 1; inside the loop the steps sent so far number the current tick;
\* after the loop, and in the completed run, exactly max_global_tick steps
\* have been sent (none for an empty list or when every action is at tick 0).
C5_StepsPerTick ==
    /\ \A i \in 1..Len(executed) : executed[i].steps = executed[i].tick
    /\ pc = "loop" => steps_sent = current_tick
    /\ pc \in {"unfreeze", "postclean", "done"} => steps_sent = max_global_tick
    /\ Len(tests_with_offsets) = 0 => steps_sent = 0

\* A finished run with actions at tick 0 and at the last tick.
C5_Witness ==
    /\ pc = "done"
    /\ max_global_tick = MaxTick
    /\ steps_sent = MaxTick
    /\ \E i, j \in 1..Len(executed) : executed[i].tick = 0 /\ executed[j].tick = MaxTick
    /\ sent[Len(sent) - Len(tests_with_offsets)].op = "tick unfreeze"
    /\ sent[Len(sent) - Len(tests_with_offsets) - 1].op # "tick step 1"

----------------------------------------------------------------------------
LexLess(a, b) ==
    \/ a[1] < b[1]
    \/ a[1] = b[1] /\ a[2] < b[2]
    \/ a[1] = b[1] /\ a[2] = b[2] /\ a[3] < b[3]

DueAt(tick) == {o \in Occurrences : TickOf(o) = tick}

\* C6: the order within a tick.  The bucket of every tick holds exactly the
\* occurrences due at that tick, strictly ascending in (test index, entry
\* position, occurrence index); a strictly ascending arrangement of a given
\* set is unique, so building the timeline again from the same input gives
\* the same per-tick order.  The calls of execute_action follow it: ticks
\* never decrease, and two calls of one tick are in ascending order.
C6_PerTickOrder ==
    /\ pc # "build" =>
          /\ DOMAIN global_timeline = {TickOf(o) : o \in Occurrences}
          /\ \A tick \in DOMAIN global_timeline :
                /\ Range(global_timeline[tick]) = DueAt(tick)
                /\ \A i, j \in 1..Len(global_timeline[tick]) :
                      i < j => LexLess(global_timeline[tick][i], global_timeline[tick][j])
    /\ \A i, j \in 1..Len(executed) :
          i < j => /\ executed[i].tick <= executed[j].tick
                   /\ executed[i].tick = executed[j].tick =>
                         LexLess(Key(executed[i]), Key(executed[j]))

\* One tick at which two tests, two entries of one test and two occurrences
\* of one entry were all executed.
C6_Witness ==
    /\ pc = "done"
    /\ \E i, j, k, l \in 1..Len(executed) :
          /\ executed[i].tick = executed[l].tick
          /\ executed[j].tick = executed[l].tick
          /\ executed[k].tick = executed[l].tick
          /\ executed[i].test = executed[j].test
          /\ executed[i].entry = executed[j].entry
          /\ executed[i].value_idx < executed[j].value_idx
          /\ executed[k].test = executed[j].test
          /\ executed[j].entry < executed[k].entry
          /\ executed[k].test < executed[l].test

----------------------------------------------------------------------------
\* C7: every occurrence exactly once, at its tick.  Every call of
\* execute_action is for an occurrence (test, entry, i) of the input, made in
\* the iteration whose tick is the entry's at[i], after exactly at[i] step
\* commands, with i as the occurrence index; no occurrence is called twice;
\* the iterations run over 0, 1, ... in order without a gap; and in the
\* completed run every occurrence has been called and the loop has visited
\* every tick of [0, max_global_tick], ticks with no due action included.
C7_EveryOccurrenceOnce ==
    /\ \A i \in 1..Len(executed) :
          /\ Key(executed[i]) \in Occurrences
          /\ executed[i].tick = TickOf(Key(executed[i]))
          /\ executed[i].steps = TickOf(Key(executed[i]))
          /\ executed[i].tick \in Range(visited)
    /\ \A i, j \in 1..Len(executed) : i # j => Key(executed[i]) # Key(executed[j])
    /\ \A i \in 1..Len(visited) : visited[i] = i - 1
    /\ pc \in {"unfreeze", "postclean", "done"} =>
          /\ {Key(executed[i]) : i \in 1..Len(executed)} = Occurrences
          /\ Len(visited) = InputMaxTick + 1

\* A finished run whose tick 0 had no due action, and in which an entry ran
\* twice at the last tick.
C7_Witness ==
    /\ pc = "done"
    /\ visited = [i \in 1..(MaxTick + 1) |-> i - 1]
    /\ \A i \in 1..Len(executed) : executed[i].tick = MaxTick
    /\ \E i, j \in 1..Len(executed) :
          /\ executed[i].test = executed[j].test
          /\ executed[i].entry = executed[j].entry
          /\ executed[i].value_idx = 1 /\ executed[j].value_idx = 2

----------------------------------------------------------------------------
LastAction == ActionOf(<<last.test, last.entry, last.value_idx>>)

LastOffset == tests_with_offsets[last.test][2]

\* C8: one execution of an Assert entry is one unit.  The latest call, when
\* it is for an Assert entry, queried the entry's positions in list order,
\* k of them; every check before the k-th succeeded; it returned Ok(true)
\* and added one to the owner's passed counter exactly when all checks were
\* queried and all succeeded; otherwise the k-th check is the first that
\* failed, no later position was queried, and one was added to the owner's
\* failed counter.  Nothing else about the owner's counters changed.
C8_AssertIsOneUnit ==
    (last.test # 0 /\ LastAction.type = "Assert") =>
        LET checks == LastAction.checks
            k == Len(last.answers)
            ok(j) == check_success(checks[j].is, last.answers[j])
        IN  /\ k <= Len(checks)
            /\ Len(last.io) = k
            /\ \A j \in 1..k :
                  last.io[j] = GetBlock(apply_offset(checks[j].pos, LastOffset))
            /\ \A j \in 1..(k - 1) : ok(j)
            /\ last.ret \in {"Ok(true)", "Err"}
            /\ (last.ret = "Ok(true)") = (k = Len(checks) /\ \A j \in 1..k : ok(j))
            /\ last.ret = "Err" => k >= 1 /\ ~ok(k)
            /\ test_results[last.test] =
                  IF k = Len(checks) /\ \A j \in 1..k : ok(j)
                  THEN <<last.before[1] + 1, last.before[2]>>
                  ELSE <<last.before[1], last.before[2] + 1>>

\* An Assert entry of two checks whose first check failed: one query, one
\* failed unit.
C8_Witness ==
    /\ last.test # 0
    /\ LastAction.type = "Assert"
    /\ Len(LastAction.checks) = 2
    /\ Len(last.answers) = 1
    /\ last.ret = "Err"
    /\ test_results[last.test] = <<last.before[1], last.before[2] + 1>>

----------------------------------------------------------------------------
\* The identifier normalised as the statement of the comparison has it:
\* namespace prefix stripped, case folded, separators stripped.
Normalized(s) == remove_char(to_lowercase(trim_start_matches(s, NamespacePrefix)), "_")

\* C9 as stated: the check succeeds exactly when the actual value is present
\* and one of the two normalised identifiers contains the other.
C9_BidirectionalContainment ==
    (last.test # 0 /\ LastAction.type = "Assert" /\ Len(LastAction.checks) = 1) =>
        LET e == Normalized(chars(LastAction.checks[1].is))
            actual == last.answers[1]
        IN  (last.ret = "Ok(true)") =
               (/\ actual.some
                /\ \/ contains(e, Normalized(chars(actual.v)))
                   \/ contains(Normalized(chars(actual.v)), e))

\* C9: the comparison of an Assert check runs one way.  The check succeeds
\* exactly when the actual value is present and the actual representation,
\* case folded and with separators stripped (its namespace prefix kept),
\* contains the expected identifier with its namespace prefix stripped, case
\* folded and separators stripped.  An expected identifier that merely
\* contains the actual one does not succeed.
C9_OneWayContainment ==
    (last.test # 0 /\ LastAction.type = "Assert" /\ Len(LastAction.checks) = 1) =>
        LET e == Normalized(chars(LastAction.checks[1].is))
            actual == last.answers[1]
        IN  (last.ret = "Ok(true)") =
               (/\ actual.some
                /\ contains(remove_char(to_lowercase(chars(actual.v)), "_"), e))

\* Expected "Stone_Bricks" against actual "stone": the expected identifier
\* contains the actual one, and the check failed.
C9_Witness ==
    /\ last.test # 0
    /\ LastAction.type = "Assert"
    /\ LastAction.checks[1].is = "Stone_Bricks"
    /\ last.answers = <<Some("stone")>>
    /\ last.ret = "Err"
    /\ test_results[last.test] = <<last.before[1], last.before[2] + 1>>

----------------------------------------------------------------------------
\* The calls made for an AssertState occurrence whose index is past the end
\* of its values list.
PastTheEnd ==
    {i \in 1..Len(executed) :
        /\ ActionOf(Key(executed[i])).type = "AssertState"
        /\ executed[i].value_idx > Len(ActionOf(Key(executed[i])).values)}

\* C10: an AssertState occurrence whose index is past the end of `values`
\* fails fast.  Such a call is the last call of the run: the run has stopped
\* there without a result (neither Ok(true) nor Ok(false) nor a failed
\* unit), the owner's counters are as before the call, no results are
\* returned, nothing was sent after the state query of the call, and no
\* further step of the run is possible.  The run stops this way for no
\* other reason.
C10_IndexPastEndFailsFast ==
    /\ \A i \in PastTheEnd :
          /\ i = Len(executed)
          /\ pc = "panicked"
    /\ (pc = "panicked") = (last.ret = "panic")
    /\ pc = "panicked" =>
          /\ PastTheEnd = {Len(executed)}
          /\ Key(executed[Len(executed)]) = <<last.test, last.entry, last.value_idx>>
          /\ test_results[last.test] = last.before
          /\ results = << >>
          /\ sent[Len(sent)].op = "get_block_state_property"
          /\ ~ENABLED Next

\* A run that stopped at such an occurrence after earlier actions ran, with
\* occurrences of the input still not executed.
C10_Witness ==
    /\ pc = "panicked"
    /\ Len(executed) >= 2
    /\ Len(executed) < Cardinality(Occurrences)
    /\ \E t \in Tests : test_results[t][1] >= 1

----------------------------------------------------------------------------
\* The outcomes counted for test b, read off the calls made so far: the
\* assertion occurrences of b that held, and those that did not.
Tally(b) == <<AssertionsRun(b) - mismatched[b], mismatched[b]>>

\* C11: the results of a completed run.  The returned list has one
\* TestResult per input test, the i-th carrying the name of the i-th test of
\* the input list; its passed and failed fields are that test's final
\* counters, which count from (0, 0) the test's own assertion occurrences
\* that held and that did not; success is true exactly when failed is 0, so
\* a test with no assertion is reported successful.  Before the run is
\* complete no result exists.
C11_OneResultPerTest ==
    /\ pc # "done" => results = << >>
    /\ pc = "done" =>
          /\ Len(results) = Len(tests_with_offsets)
          /\ \A i \in Tests :
                /\ results[i].test_name = tests_with_offsets[i][1].name
                /\ <<results[i].passed, results[i].failed>> = test_results[i]
                /\ test_results[i] = Tally(i)
                /\ results[i].success = (results[i].failed = 0)
                /\ AssertionsRun(i) = 0 =>
                      results[i] = [test_name |-> tests_with_offsets[i][1].name,
                                    passed |-> 0, failed |-> 0, success |-> TRUE]

\* A completed run of two tests: the first has no assertion and is reported
\* successful with (0, 0); the second, whose outcomes all arrived before the
\* results were built, passed one occurrence and failed another.
C11_Witness ==
    /\ pc = "done"
    /\ Len(results) = 2
    /\ TimelineOf(1) = << >>
    /\ results[1] = [test_name |-> "first", passed |-> 0, failed |-> 0, success |-> TRUE]
    /\ results[2].test_name = "second"
    /\ results[2].passed = 1 /\ results[2].failed = 1 /\ ~results[2].success

----------------------------------------------------------------------------
InConnect == cstate \in {"window1", "check1", "window2", "check2"}

\* What the return of connect rests on: a step that leaves the check after
\* the first window returns Err exactly when the cell is empty at that check
\* and goes on to the second window otherwise; a step that leaves the check
\* after the second window returns Err exactly when the flag is false at
\* that check and Ok otherwise; connect returns from nowhere else.
ConnectReturns ==
    /\ (cstate = "check1" /\ cstate' # "check1") =>
          IF client_handle = "None"
          THEN cstate' = "returned" /\ connect_result' = "Err"
          ELSE cstate' = "window2" /\ connect_result' = ""
    /\ (cstate = "check2" /\ cstate' # "check2") =>
          /\ cstate' = "returned"
          /\ connect_result' = (IF in_game THEN "Ok" ELSE "Err")
    /\ (cstate # "returned" /\ cstate' = "returned") => cstate \in {"check1", "check2"}

\* C12: connect is bounded by two polling windows, one after the other.  At
\* most 50 polls wait for the cell and, only after them, at most 100 for the
\* flag, 150 in all; a window whose count is full, or whose poll saw what it
\* waits for, is over; the second window starts only with the cell filled;
\* and connect returns as ConnectReturns says, whatever the background task
\* did between the polls.
C12_TwoPollingWindows ==
    /\ [](/\ polls.handle <= HandleWindow
          /\ polls.in_game <= InGameWindow
          /\ polls.handle + polls.in_game <= HandleWindow + InGameWindow
          /\ cstate \in {"window1", "check1"} => polls.in_game = 0
          /\ cstate = "window1" => polls.handle < HandleWindow
          /\ cstate = "window2" => polls.in_game < InGameWindow
          /\ cstate \in {"window2", "check2"} => client_handle = "Some" /\ polls.handle >= 1
          /\ InConnect => connect_result = ""
          /\ cstate = "returned" => connect_result \in {"Ok", "Err"}
          /\ connect_result = "Ok" => client_handle = "Some" /\ in_game)
    /\ [][ConnectReturns]_vars

\* Both windows ran to their last poll, the flag was set after the last
\* poll, and connect is about to return Ok.
C12_Witness ==
    /\ cstate = "check2"
    /\ polls = [handle |-> HandleWindow, in_game |-> InGameWindow]
    /\ in_game

----------------------------------------------------------------------------
\* C13: a setup failure aborts before any test executes.  Once connect has
\* returned Err, the bot's client and in_game fields are None and stay so,
\* whatever the background task sets later; every command and every query
\* of the bot returns Err; nothing has reached the backend; and a run made
\* on the bot has executed no action and returned no result: it is at its
\* start, or has ended in an error at its first command, which is the
\* cleanup fill of the first test (the freeze command when the list is
\* empty).
C13_SetupFailureAborts ==
    connect_result = "Err" =>
        /\ client = "None"
        /\ bot_in_game = "None"
        /\ send_outcomes = {FALSE}
        /\ \A n \in 1..2 : fail_points(n) = {1}
        /\ sent = << >>
        /\ executed = << >>
        /\ results = << >>
        /\ pc \in {"build", "preclean", "error"}
        /\ clean_idx = 1
        /\ Len(visited) = 0

\* connect failed in its first window; the background task filled the cell
\* and set the flag afterwards; the run on a list of two tests has ended in
\* an error with nothing sent.
C13_Witness ==
    /\ connect_result = "Err"
    /\ client_handle = "Some"
    /\ in_game
    /\ Len(tests_with_offsets) = 2
    /\ pc = "error"
    /\ sent = << >>

----------------------------------------------------------------------------
\* C14: apply_offset has no failure mode and is reversible: every call
\* returns, its value is the element-wise integer sum of pos and offset, and
\* subtracting offset from the value gives pos back, also when a sum is
\* outside the range of i32.
C14_OffsetTotalAndReversible ==
    offset_call.stage # "called" =>
        /\ offset_call.stage = "returned"
        /\ \A k \in 1..3 :
               /\ offset_call.value[k] = offset_call.pos[k] + offset_call.offset[k]
               /\ offset_call.value[k] - offset_call.offset[k] = offset_call.pos[k]

----------------------------------------------------------------------------
\* A step of the background task: it fills the cell, sets the flag or ends.
TaskStep == client_handle' # client_handle \/ in_game' # in_game \/ task' # task

----------------------------------------------------------------------------
\* The positions of sent that hold the command op.
Holding(op) == {k \in 1..Len(sent) : sent[k].op = op}

\* What the tick loop may send: the commands and queries of the actions, and
\* the step command.
LoopOps == {"setblock", "fill", "get_block", "get_block_state_property", "tick step 1"}

IsCleanupFill(e) == e.op = "fill" /\ e.block = "air"

\* C16: a run on a connected bot over a link without failure issues its
\* commands in the order of its states.  With n tests: the first n commands
\* are cleanup fills and are sent before anything else; command n + 1 is the
\* one `tick freeze` of the run; what follows until the loop is left are
\* action commands, state queries and step commands only; then comes the one
\* `tick unfreeze`, and after it n cleanup fills and nothing else.  So every
\* setblock, action fill and query lies after the freeze command and before
\* the unfreeze command.
C16_CommandOrder ==
    LET n == Len(tests_with_offsets)
        freezes == Holding("tick freeze")
        unfreezes == Holding("tick unfreeze")
    IN  client = "Some" =>
        /\ pc \in {"build", "preclean", "freeze"} =>
               /\ Len(sent) = (IF pc = "freeze" THEN n ELSE clean_idx - 1)
               /\ \A k \in 1..Len(sent) : IsCleanupFill(sent[k])
        /\ pc \in {"loop", "unfreeze", "postclean", "done"} =>
               /\ freezes = {n + 1}
               /\ \A k \in 1..n : IsCleanupFill(sent[k])
        /\ pc \in {"loop", "unfreeze"} =>
               /\ unfreezes = {}
               /\ \A k \in (n + 2)..Len(sent) : sent[k].op \in LoopOps
        /\ pc \in {"postclean", "done"} =>
               LET done == IF pc = "done" THEN n ELSE clean_idx - 1
                   u == Len(sent) - done
               IN  /\ unfreezes = {u}
                   /\ u > n + 1
                   /\ \A k \in (n + 2)..(u - 1) : sent[k].op \in LoopOps
                   /\ \A k \in (u + 1)..Len(sent) : IsCleanupFill(sent[k])
        /\ pc = "done" => Len(results) = n
        /\ pc \notin {"error", "panicked"}

\* A finished run of two tests that sent setblocks, an action fill, queries
\* and a step command between its freeze and its unfreeze command.
C16_Witness ==
    /\ pc = "done"
    /\ client = "Some"
    /\ Len(tests_with_offsets) = 2
    /\ \A op \in LoopOps \ {"get_block_state_property"} : Holding(op) # {}
    /\ \E k \in Holding("fill") :
           k > Len(tests_with_offsets) + 1 /\ k < Len(sent) - Len(tests_with_offsets)

----------------------------------------------------------------------------
Constructive == {"Place", "PlaceEach", "Fill", "Remove"}

----------------------------------------------------------------------------
\* The test-local position pos moved by the offset paired with test t.
Shifted(pos, t) ==
    <<pos[1] + tests_with_offsets[t][2][1], pos[2] + tests_with_offsets[t][2][2],
      pos[3] + tests_with_offsets[t][2][3]>>

\* The test-local positions of the commands and queries of an action, in the
\* order the action issues them: one pair (from, to) per command or query.
LocalPositions(a) ==
    CASE a.type = "PlaceEach" -> [j \in 1..Len(a.blocks) |-> <<a.blocks[j].pos, a.blocks[j].pos>>]
      [] a.type = "Assert" -> [j \in 1..Len(a.checks) |-> <<a.checks[j].pos, a.checks[j].pos>>]
      [] a.type = "Fill" -> <<<<a.region[1], a.region[2]>>>>
      [] OTHER -> <<<<a.pos, a.pos>>>>

\* C18: every position that crosses the backend boundary for test i is the
\* test-local position plus the offset paired with test i.  The commands and
\* queries of the latest call of execute_action carry the positions of its
\* action moved by the offset of its own test; the cleanup fills of the first
\* round, and those of the second, carry each test's cleanup region moved by
\* that test's offset; and no step of the run changes the input list.
C18_OwnOffsetOnly ==
    /\ [](/\ last.test \in Tests =>
                \A j \in 1..Len(last.io) :
                   LET local == LocalPositions(ActionOf(Key(last)))[j]
                   IN  /\ last.io[j].p = Shifted(local[1], last.test)
                       /\ last.io[j].q = Shifted(local[2], last.test)
          /\ pc \in {"preclean", "freeze"} =>
                \A i \in 1..Len(sent) :
                   /\ sent[i].p = Shifted(tests_with_offsets[i][1].cleanup_region[1], i)
                   /\ sent[i].q = Shifted(tests_with_offsets[i][1].cleanup_region[2], i)
          /\ pc \in {"postclean", "done"} =>
                LET done == IF pc = "done" THEN Len(tests_with_offsets) ELSE clean_idx - 1
                IN  \A i \in 1..done :
                       LET e == sent[Len(sent) - done + i]
                       IN  /\ e.p = Shifted(tests_with_offsets[i][1].cleanup_region[1], i)
                           /\ e.q = Shifted(tests_with_offsets[i][1].cleanup_region[2], i))
    /\ [][tests_with_offsets' = tests_with_offsets]_vars

\* The run has returned; its latest action was one of the second test, whose
\* offset is not zero and differs from the first test's, and reached the
\* backend.
C18_Witness ==
    /\ pc = "done"
    /\ last.test = 2
    /\ Len(last.io) >= 1
    /\ tests_with_offsets[2][2] # Origin
    /\ tests_with_offsets[2][2] # tests_with_offsets[1][2]

----------------------------------------------------------------------------
\* The occurrences of test b's Assert and AssertState entries in the input.
AssertionOccurrences(b) == {o \in Occurrences : o[1] = b /\ IsAssertion(o)}

\* C19: each firing of an AssertState entry yields exactly one unit for its
\* occurrence.  After a call for an AssertState occurrence whose index lies
\* within `values`, the test's counters are those before the call with
\* either passed or failed one higher; passed is the one exactly when the
\* backend reported a block state at the translated position, the state's
\* text contains `<property>: `, and it contains values[index]; so the
\* occurrence fails when the state or the property is absent.  When a run
\* returns, each test's units add up to its assertion occurrences: an entry
\* with k ticks has contributed k.
C19_StateAssertUnit ==
    /\ (/\ last.test \in Tests
        /\ ActionOf(Key(last)).type = "AssertState"
        /\ last.value_idx \in 1..Len(ActionOf(Key(last)).values)) =>
          LET a == ActionOf(Key(last))
              block_state == last.answers[1]
              found ==
                  /\ block_state.some
                  /\ contains(chars(block_state.v), chars(a.state) \o <<":", " ">>)
                  /\ contains(chars(block_state.v), chars(a.values[last.value_idx]))
              now == test_results[last.test]
          IN  /\ Len(last.io) = 1
              /\ last.io[1] = [op |-> "get_block_state_property",
                               p |-> Shifted(a.pos, last.test),
                               q |-> Shifted(a.pos, last.test),
                               block |-> "", prop |-> a.state]
              /\ now = IF found
                       THEN <<last.before[1] + 1, last.before[2]>>
                       ELSE <<last.before[1], last.before[2] + 1>>
    /\ pc = "done" =>
          \A b \in Tests :
             test_results[b][1] + test_results[b][2] = Cardinality(AssertionOccurrences(b))

\* An AssertState occurrence that expects "true" has just run against a
\* state that holds the text "true" but not the property, and was counted as
\* failed; an occurrence ran before it and passed.
C19_Witness ==
    /\ last.test \in Tests
    /\ ActionOf(Key(last)).type = "AssertState"
    /\ ActionOf(Key(last)).values[last.value_idx] = "true"
    /\ last.answers = <<Some("piston{ extended: true }")>>
    /\ test_results[last.test][2] = last.before[2] + 1
    /\ \E b \in Tests : test_results[b][1] >= 1

----------------------------------------------------------------------------
\* C20: every run terminates.  The tick counter strictly increases from one
\* loop iteration to the next, the loop body runs at most
\* max_global_tick + 1 times, exactly that often in a run that returns its
\* results, and the run ends in its results or in an error, never in a
\* panic, for every max_global_tick of the tick type, its largest value
\* included.
C20_EveryRunTerminates ==
    /\ \A i \in 1..(Len(visited) - 1) : visited[i] < visited[i + 1]
    /\ Len(visited) <= max_global_tick + 1
    /\ pc = "done" => Len(visited) = max_global_tick + 1
    /\ pc # "panicked"

----------------------------------------------------------------------------
\* The clock of the backend is frozen: a freeze command reached it and no
\* unfreeze command did.
LeftFrozen == Holding("tick freeze") # {} /\ Holding("tick unfreeze") = {}

\* A step command was due and none reached the backend in this step.
StepCommandFailed ==
    /\ pc = "loop"
    /\ entry_pos > Len(due_now)
    /\ needs_step(current_tick, max_global_tick)
    /\ sent' = sent

\* The unfreeze command was due and did not reach the backend in this step.
UnfreezeCommandFailed == pc = "unfreeze" /\ sent' = sent

\* C21: a run that aborts after the freeze command was sent leaves the clock
\* frozen.  A step of the run in which the due `tick step 1` or the due
\* `tick unfreeze` fails ends the run in an error at once, with nothing sent
\* and no result; the run takes no step after an error; and in a run that
\* ended in an error after its freeze command and without its unfreeze
\* command, only the commands of the first cleanup round, the freeze command
\* and commands of the loop were sent: no unfreeze command, no cleanup fill
\* of the second round, and no TestResult for any test.
C21_AbortLeavesClockFrozen ==
    /\ []((pc = "error" /\ LeftFrozen) =>
            /\ results = << >>
            /\ Holding("tick freeze") = {Len(tests_with_offsets) + 1}
            /\ \A k \in (Len(tests_with_offsets) + 2)..Len(sent) : sent[k].op \in LoopOps
            /\ Len(flights) = Len(sent))
    /\ [][(StepCommandFailed \/ UnfreezeCommandFailed) =>
             /\ pc' = "error"
             /\ results' = << >>
             /\ LeftFrozen']_vars
    /\ [][pc # "error"]_vars

\* The run executed an action, a step command failed before the last tick,
\* and the run has ended in an error with the clock frozen.
C21_Witness ==
    /\ pc = "error"
    /\ LeftFrozen
    /\ executed # << >>
    /\ current_tick < max_global_tick

----------------------------------------------------------------------------
\* Both events have reached the handler: Init filled the cell and Login set
\* the flag.
BothEvents == client_handle = "Some" /\ in_game

\* C22: once connect has returned Ok the bot stays usable.  In every state
\* in which connect has returned Ok the bot holds the cell and the flag, the
\* cell is filled and the flag is true, whatever the background task did
\* since (also when it has ended); so no command and no query of the bot
\* fails for want of a client, and a run made on the bot over a link without
\* failure never ends in an error.  connect returns Ok only from a state in
\* which both the Init and the Login event have occurred, and Ok once
\* returned is never taken back.
C22_ConnectedStaysConnected ==
    /\ [](connect_result = "Ok" =>
            /\ client = "Some"
            /\ bot_in_game = "Some"
            /\ BothEvents
            /\ FALSE \notin send_outcomes
            /\ \A n \in 1..2 : fail_points(n) = {0}
            /\ pc # "error")
    /\ [][connect_result' = "Ok" => BothEvents /\ BothEvents']_vars
    /\ [][connect_result = "Ok" => connect_result' = "Ok"]_vars

\* connect returned Ok, the background task has ended since, and the run
\* made on the bot sent its commands and returned its results.
C22_Witness ==
    /\ connect_result = "Ok"
    /\ task = "ended"
    /\ pc = "done"
    /\ Len(sent) >= 5
    /\ results # << >>

----------------------------------------------------------------------------
IsPrefix(a, b) == Len(a) <= Len(b) /\ SubSeq(b, 1, Len(a)) = a

\* The single-test path was called with the offset the list pairs the test
\* with.
SameArguments == single.pc # "idle" /\ single.offset = tests_with_offsets[1][2]

SingleEnded == single.pc \in {"done", "error", "panicked"}

\* C23: the single-test path is equivalent to the merged path on a
\* one-element list.  Against a backend that answers both alike,
\* run_test_with_offset(T, o) and run_tests_parallel([(T, o)]) issue the same
\* commands and queries in the same order: while they run, what one has
\* issued is a prefix of what the other has issued, and when both have ended
\* the two sequences are equal, both ended the same way, and where they
\* returned, the single TestResult has the name, passed, failed and success
\* of the one element of the merged results.  run_test(T) is
\* run_test_with_offset(T, [0, 0, 0]).
C23_SinglePathEquivalent ==
    /\ SameArguments => IsPrefix(single.sent, sent) \/ IsPrefix(sent, single.sent)
    /\ (SameArguments /\ SingleEnded /\ Ended) =>
          /\ single.sent = sent
          /\ single.pc = pc
          /\ pc = "done" =>
                /\ single.result.some
                /\ Len(results) = 1
                /\ single.result.v.test_name = results[1].test_name
                /\ single.result.v.passed = results[1].passed
                /\ single.result.v.failed = results[1].failed
                /\ single.result.v.success = results[1].success
    /\ single.pc # "done" => single.result = None
    /\ single.entry = "run_test" => single.offset = Origin

\* Both paths have returned for a test at an offset that is not zero, after
\* at least one step command, with one occurrence passed and one failed.
C23_Witness ==
    /\ SameArguments
    /\ pc = "done"
    /\ single.pc = "done"
    /\ single.entry = "run_test_with_offset"
    /\ single.offset # Origin
    /\ results[1].passed >= 1
    /\ results[1].failed >= 1
    /\ steps_sent >= 1

====
